---- MODULE Spec2Model ----
(***************************************************************************)
(* Model of invoice_generator.py: the Streamlit invoicing script with a    *)
(* Google-Sheets ledger.  One script run of a session is split at its two  *)
(* ledger accesses: the snapshot read with the numbering (lines 284-297)   *)
(* and the rest of the run (the Generate Invoice handler, lines 406-482,   *)
(* and the Past Invoices refresh, lines 488-492).                          *)
(*                                                                         *)
(* Text that the code inspects character by character (counter, stall,     *)
(* invoice number) is a sequence of one-character strings.  Money is an    *)
(* integer number of 1/10000 rupee, so price * qty * (1 - d/100) and       *)
(* subtotal * rate/100 are exact; binary float rounding is not modelled.   *)
(***************************************************************************)
EXTENDS Integers, Sequences, FiniteSets, TLC

VARIABLES
    header,           \* row 1 of the worksheet
    rows,             \* the data rows of the worksheet (rows 2..)
    cache,            \* st.cache_data entry of fetch_sheet_df
    pc,               \* per session: position of its script run
    billing_counter,  \* per session: line 267
    stall_no,         \* per session: line 273
    invoice_no,       \* per session: line 297
    msgs,             \* per session: st.warning / st.error shown by the run so far
    overlapped,       \* history, per session: a handler of another run completed
                      \* after this run read its snapshot
    run               \* the single call under check (SpecRun, SpecCalc)

vars == <<header, rows, cache, pc, billing_counter, stall_no, invoice_no, msgs,
          overlapped, run>>

sessionVars == <<pc, billing_counter, stall_no, invoice_no, msgs, overlapped>>

-----------------------------------------------------------------------------
(* Bounds *)

MaxRows == 2

MaxItems == 2

MaxCells == 19

-----------------------------------------------------------------------------
(* Text helpers *)

Digits == <<"0", "1", "2", "3", "4", "5", "6", "7", "8", "9">>

IsDigit(ch) == \E k \in 1..10 : Digits[k] = ch

DigitVal(ch) == (CHOOSE k \in 1..10 : Digits[k] = ch) - 1

Max(S) == CHOOSE x \in S : \A y \in S : y <= x

Min(S) == CHOOSE x \in S : \A y \in S : x <= y

\* str.startswith
startswith(s, p) ==
    /\ Len(p) <= Len(s)
    /\ SubSeq(s, 1, Len(p)) = p

\* int("0123")
RECURSIVE astype_int(_)
astype_int(ds) ==
    IF ds = <<>> THEN 0
    ELSE 10 * astype_int(SubSeq(ds, 1, Len(ds) - 1)) + DigitVal(ds[Len(ds)])

\* str(n) for n >= 0
RECURSIVE str_int(_)
str_int(n) ==
    IF n < 10 THEN <<Digits[n + 1]>>
    ELSE str_int(n \div 10) \o <<Digits[(n % 10) + 1]>>

\* f"{n:02d}"
fmt_02d(n) == IF n < 10 THEN <<"0">> \o str_int(n) ELSE str_int(n)

INV == <<"_", "I", "N", "V">>

\* the longest run of digits of s that starts at position i
RECURSIVE digit_run(_, _)
digit_run(s, i) ==
    IF i > Len(s) \/ ~IsDigit(s[i]) THEN <<>>
    ELSE <<s[i]>> \o digit_run(s, i + 1)

\* re.search(rf"{counter}_INV(\d+)", s): the positions where the pattern matches
match_positions(s, counter) ==
    LET pat == counter \o INV
    IN  {i \in 1..Len(s) :
            /\ i + Len(pat) <= Len(s)
            /\ SubSeq(s, i, i + Len(pat) - 1) = pat
            /\ IsDigit(s[i + Len(pat)])}

\* Series.str.extract(rf"{counter}_INV(\d+)")[0] of one value: group 1 of the
\* leftmost match, <<>> standing for NaN
str_extract(s, counter) ==
    LET P == match_positions(s, counter)
    IN  IF P = {} THEN <<>>
        ELSE digit_run(s, Min(P) + Len(counter) + Len(INV))

-----------------------------------------------------------------------------
(* Credential store and model inputs *)

\* config["credentials"]["usernames"]: the profile of each user
config ==
    [u1 |-> [role |-> "user"],
     a1 |-> [role |-> "admin", location |-> "Delhi"]]

Users == DOMAIN config

\* is_admin or is_master, lines 151-153
is_admin_or_master(u) == config[u].role \in {"admin", "master"}

A == <<"A">>
A2 == <<"A", "2">>
A_A == <<"A", "_", "A">>

\* the counter and stall a run finds in its widgets (counter already stripped and
\* upper-cased by line 267)
Inputs ==
    {<< <<>>, <<"0", "7">> >>, <<A, <<>> >>, <<A, <<"0", "7">> >>,
     <<A2, <<"0", "7">> >>}

\* the widgets of one item: name, price in rupees, quantity, discount percent
Shawl == [item |-> "Shawl", price |-> 100, qty |-> 2, discount_percent |-> 10]
Lamp == [item |-> "Lamp", price |-> 50, qty |-> 1, discount_percent |-> 0]

\* the item widgets and GST rate a run of the handler finds
Forms ==
    {[items |-> <<Lamp>>, gst_percent |-> 0],
     [items |-> <<Shawl, Lamp>>, gst_percent |-> 18]}

-----------------------------------------------------------------------------
(* The worksheet *)

target_header ==
    <<"Stall No", "Invoice No", "Date", "Phone No", "Payment Method",
      "Artisan Code", "Item", "Qty", "Price", "Total (Item)", "Discount%",
      "Final Total (Item)", "Final Total (Invoice)", "GST%", "GST Amt",
      "Status", "Corporation", "Location">>

\* a header of the sheet before the GST columns were added
legacy_header ==
    <<"Stall No", "Invoice No", "Date", "Phone No", "Payment Method",
      "Artisan Code", "Item", "Qty", "Price", "Total (Item)", "Discount%",
      "Final Total (Item)", "Final Total (Invoice)", "Status", "Location">>

\* target_header.index(name) + 1
col(name) == CHOOSE i \in 1..Len(target_header) : target_header[i] = name

\* the columns whose cells the model holds as character sequences
TextCols == {col("Stall No"), col("Invoice No"), col("Phone No")}

AllDigits(s) == s # <<>> /\ \A i \in 1..Len(s) : IsDigit(s[i])

\* what the sheet makes of a typed value that reads as a number (value_input_option=
\* "USER_ENTERED"), and what get_all_records makes of a cell that reads as a number:
\* the number, held here as its canonical decimal text
numericise(cell) == IF AllDigits(cell) THEN str_int(astype_int(cell)) ELSE cell

numericise_row(r) ==
    [i \in 1..Len(r) |-> IF i \in TextCols THEN numericise(r[i]) ELSE r[i]]

\* worksheet.get_all_records() and the DataFrame of lines 179-195; the sheet holds
\* data rows only under the target header, so the columns are those of target_header
read_all(data) == [i \in 1..Len(data) |-> numericise_row(data[i])]

\* the body of fetch_sheet_df, lines 177-198: ok is whether the sheet could be read
fetch_sheet_df_body(data, ok) == IF ok THEN read_all(data) ELSE <<>>

NoCache == [valid |-> FALSE, df |-> <<>>, failed |-> FALSE]

\* what st.cache_data holds after fetch_sheet_df ran its body
cached(data, ok) == [valid |-> TRUE, df |-> fetch_sheet_df_body(data, ok), failed |-> ~ok]

\* fetch_sheet_df(): the cached entry when there is one, else the body's result
fetch_sheet_df(c, data, ok) == IF c.valid THEN c ELSE cached(data, ok)

\* the refresh of lines 480-481 without the clear()
refresh_without_clear(c, data, ok) == fetch_sheet_df(c, data, ok)

\* lines 480-481: fetch_sheet_df.clear(); fetch_sheet_df()
refresh_after_save(c, data, ok) == fetch_sheet_df(NoCache, data, ok)

-----------------------------------------------------------------------------
(* Invoice numbering, lines 284-297 *)

\* _all_df[_all_df["Invoice No"].str.startswith(billing_counter)]["Invoice No"]
df_counter(df, counter) ==
    SelectSeq([i \in 1..Len(df) |-> df[i][col("Invoice No")]],
              LAMBDA v : startswith(v, counter))

\* .str.extract(...)[0].dropna().astype(int): the parsed suffixes
parsed_suffixes(df, counter) ==
    LET vals == df_counter(df, counter)
    IN  {astype_int(str_extract(vals[i], counter)) :
            i \in {j \in 1..Len(vals) : str_extract(vals[j], counter) # <<>>}}

\* lines 285-296: raised is the ValueError of int(NaN), when rows start with the
\* counter and none of them matches the pattern
numbering(df, counter) ==
    IF counter # <<>> /\ df # <<>> /\ df_counter(df, counter) # <<>>
    THEN IF parsed_suffixes(df, counter) = {}
         THEN [raised |-> TRUE, inv_numeric |-> 1]
         ELSE [raised |-> FALSE, inv_numeric |-> Max(parsed_suffixes(df, counter)) + 1]
    ELSE [raised |-> FALSE, inv_numeric |-> 1]

\* line 297
format_invoice_no(counter, n) ==
    IF counter # <<>> THEN counter \o INV \o fmt_02d(n) ELSE <<>>

\* lines 406-410
missing(counter, stall) ==
    (IF counter = <<>> THEN {"Billing Counter"} ELSE {})
        \cup (IF stall = <<>> THEN {"Stall Number"} ELSE {})

-----------------------------------------------------------------------------
(* Line-item calculation, lines 316-332 and 424-437 *)

\* units of money per rupee
Unit == 100 * 100

\* line 316
total_before_discount(price, qty) == price * qty

\* line 317 with the percentage taken off as an amount
total_minus_discount(total, discount) == total - discount

\* line 317: total * (1 - discount / 100)
total_after_discount(total, discount) == (total * (100 - discount)) \div 100

\* lines 318-328: the entry of the i-th item
item_entry(i, w) ==
    [s_no |-> i,
     item |-> w.item,
     price |-> w.price * Unit,
     qty |-> w.qty,
     discount_percent |-> w.discount_percent,
     total |-> total_before_discount(w.price * Unit, w.qty),
     final_total |->
         total_after_discount(total_before_discount(w.price * Unit, w.qty),
                              w.discount_percent)]

build_items(ws) == [i \in 1..Len(ws) |-> item_entry(i, ws[i])]

RECURSIVE sum_seq(_)
sum_seq(q) == IF q = <<>> THEN 0 ELSE q[1] + sum_seq(Tail(q))

\* line 331 and line 427: subtotal * (gst_percent / 100.0)
gst_of(subtotal, gst_percent) == (subtotal * gst_percent) \div 100

\* lines 330-332: the module-level totals shown in the form
form_totals(items, gst_percent) ==
    LET subtotal == sum_seq([i \in 1..Len(items) |-> items[i].final_total])
    IN  [subtotal |-> subtotal,
         gst_amount |-> gst_of(subtotal, gst_percent),
         grand_total_incl_gst |-> subtotal + gst_of(subtotal, gst_percent)]

\* lines 424-437: the totals of the Generate Invoice handler
handler_totals(items, gst_percent) ==
    LET total_amount == sum_seq([i \in 1..Len(items) |-> items[i].total])
        discount_amt ==
            sum_seq([i \in 1..Len(items) |-> items[i].total - items[i].final_total])
        subtotal_after_discount ==
            sum_seq([i \in 1..Len(items) |-> items[i].final_total])
        gst_amount_calc == gst_of(subtotal_after_discount, gst_percent)
    IN  [total_amount |-> total_amount,
         discount_amt |-> discount_amt,
         subtotal |-> subtotal_after_discount,
         gst_percent |-> gst_percent,
         gst_amount |-> gst_amount_calc,
         grand_total_incl_gst |-> subtotal_after_discount + gst_amount_calc]

\* lines 394-398: the totals block _draw_page prints; the subtotal line prints the
\* module-level subtotal of line 330, the others come from the totals argument
draw_page_totals(items, gst_percent, totals) ==
    [subtotal |-> form_totals(items, gst_percent).subtotal,
     discount_amt |-> totals.discount_amt,
     gst_percent |-> totals.gst_percent,
     gst_amount |-> totals.gst_amount,
     grand_total |-> totals.grand_total_incl_gst]

-----------------------------------------------------------------------------
(* Record building and append *)

\* the header widgets the model holds fixed
date_str == "01-11-2026"
ph_no == <<>>
payment_method == "Cash"
artisan_code == "ART1"
Corporation == "NBCFDC"

\* lines 457-476 with the item's own final total in the invoice-total cell
handler_row_item_total(stall, inv, it, totals) ==
    <<stall, inv, date_str, ph_no, payment_method, artisan_code,
      it.item, it.qty, it.price, it.total, it.discount_percent, it.final_total,
      it.final_total, totals.gst_percent, totals.gst_amount,
      "Active", Corporation>>

\* lines 457-476: the row of one item, without Location
handler_row(stall, inv, it, totals) ==
    <<stall, inv, date_str, ph_no, payment_method, artisan_code,
      it.item, it.qty, it.price, it.total, it.discount_percent, it.final_total,
      totals.grand_total_incl_gst, totals.gst_percent, totals.gst_amount,
      "Active", Corporation>>

\* lines 456-478
handler_rows(stall, inv, items, totals) ==
    [i \in 1..Len(items) |-> handler_row(stall, inv, items[i], totals)]

\* lines 240-243
profile_location(user) ==
    IF user \in DOMAIN config /\ "location" \in DOMAIN config[user]
    THEN config[user].location
    ELSE ""

\* the empty string of a column
blank(i) == IF i \in TextCols THEN <<>> ELSE ""

\* lines 248-254 with the Location test one cell late
RECURSIVE full_row_late_location(_, _)
full_row_late_location(r, location) ==
    IF Len(r) >= Len(target_header) THEN r
    ELSE full_row_late_location(Append(r, IF Len(r) = col("Location")
                                          THEN location
                                          ELSE blank(Len(r) + 1)),
                                location)

\* lines 248-254: one row padded to the header
RECURSIVE full_row(_, _)
full_row(r, location) ==
    IF Len(r) >= Len(target_header) THEN r
    ELSE full_row(Append(r, IF Len(r) = col("Location") - 1
                            THEN location
                            ELSE blank(Len(r) + 1)),
                  location)

\* lines 246-255
rows_with_location(rs, location) == [i \in 1..Len(rs) |-> full_row(rs[i], location)]

\* append_rows that refuses rows whose invoice number the sheet already holds
append_rows_unique(data, new) ==
    IF \E i \in 1..Len(data), j \in 1..Len(new) :
           data[i][col("Invoice No")] = new[j][col("Invoice No")]
    THEN data
    ELSE data \o [i \in 1..Len(new) |-> numericise_row(new[i])]

\* append_rows putting the new rows above the rows the sheet holds
append_rows_on_top(data, new) == [i \in 1..Len(new) |-> numericise_row(new[i])] \o data

\* line 257: worksheet.append_rows(..., value_input_option="USER_ENTERED")
append_rows(data, new) == data \o [i \in 1..Len(new) |-> numericise_row(new[i])]

\* lines 228-237: row 1 after the header check
ensure_header(h) ==
    IF h = <<>> THEN target_header
    ELSE IF h # target_header THEN target_header ELSE h

\* where append_to_google_sheet may raise: opening the sheet or reading row 1,
\* writing the header, appending the rows
FailPoints == {"none", "open", "header", "append"}

\* lines 201-260: the worksheet after the call and whether the warning was shown;
\* user is st.session_state["username"]
append_to_google_sheet(h, data, rs, user, failAt) ==
    [header |-> IF failAt \in {"open", "header"} THEN h ELSE ensure_header(h),
     rows |-> IF failAt = "none"
              THEN append_rows(data, rows_with_location(rs, profile_location(user)))
              ELSE data,
     warned |-> failAt # "none"]

\* lines 424-482 up to the append: what the handler of a clicked button does to the
\* worksheet and what it shows
generate_invoice(h, data, user, stall, inv, form, failAt) ==
    LET items == build_items(form.items)
        totals == handler_totals(items, form.gst_percent)
        res == append_to_google_sheet(h, data, handler_rows(stall, inv, items, totals),
                                      user, failAt)
    IN  [header |-> res.header,
         rows |-> res.rows,
         pdf |-> draw_page_totals(items, form.gst_percent, totals),
         shown |-> {"download_pdf", "success_saved"}
                   \cup (IF res.warned THEN {"warn_append"} ELSE {})]

-----------------------------------------------------------------------------
(* Past invoices: cancel and restore, lines 488-520 *)

\* line 495: df["Invoice No"].unique()
invoice_ids(df) == {df[i][col("Invoice No")] : i \in 1..Len(df)}

\* lines 497-501: the Status of the first row of the selected invoice
invoice_status(df, v) ==
    LET selected_df == SelectSeq(df, LAMBDA r : r[col("Invoice No")] = v)
    IN  IF selected_df # <<>> THEN selected_df[1][col("Status")] ELSE "Active"

\* lines 503 and 512: the button the page shows for the selected invoice
status_button(df, v) ==
    IF invoice_status(df, v) = "Active" THEN "Cancelled" ELSE "Active"

\* lines 508 and 517: df_all[df_all["Invoice No"] == selected_invoice], the index
\* of each row; get_all_records gives a cell that reads as a number as a number,
\* which equals no text
matching_rows(data, v) ==
    {i \in 1..Len(data) :
        /\ ~AllDigits(data[i][col("Invoice No")])
        /\ data[i][col("Invoice No")] = v}

\* lines 509 and 518: df_all.columns.get_loc("Status") + 1
status_col(h) == CHOOSE i \in 1..Len(h) : h[i] = "Status"

\* the first k of the indices S, in the order of iterrows
RECURSIVE first_k(_, _)
first_k(S, k) ==
    IF k = 0 \/ S = {} THEN {}
    ELSE {Min(S)} \cup first_k(S \ {Min(S)}, k - 1)

\* the loop of lines 508-509 undone when it does not reach its end
update_cells_rolled_back(h, data, v, status, k) ==
    IF k < Cardinality(matching_rows(data, v)) THEN data
    ELSE [i \in 1..Len(data) |->
             IF i \in matching_rows(data, v)
             THEN [data[i] EXCEPT ![status_col(h)] = status]
             ELSE data[i]]

\* the loop of lines 508-509 writing to sheet row idx + 1
update_cells_row_above(h, data, v, status, k) ==
    LET done == {i - 1 : i \in first_k(matching_rows(data, v), k)} \ {0}
    IN  [i \in 1..Len(data) |->
            IF i \in done THEN [data[i] EXCEPT ![status_col(h)] = status]
            ELSE data[i]]

\* lines 508-509 and 517-518: ws.update_cell(idx + 2, Status column, status) for
\* the first k matching rows, sheet row idx + 2 being data row idx + 1
update_cells(h, data, v, status, k) ==
    LET done == first_k(matching_rows(data, v), k)
    IN  [i \in 1..Len(data) |->
            IF i \in done THEN [data[i] EXCEPT ![status_col(h)] = status]
            ELSE data[i]]

\* lines 505-509 and 514-518: the re-read and the loop; ok is whether the sheet
\* could be opened and read, k the number of cell updates that succeed; raised is
\* the exception that leaves the handler, there being no try around these lines
set_status(h, data, v, status, ok, k) ==
    LET n == Cardinality(matching_rows(data, v))
    IN  [rows |-> IF ok THEN update_cells(h, data, v, status, Min({k, n})) ELSE data,
         raised |-> ~ok \/ k < n]

-----------------------------------------------------------------------------
(* Past invoices: re-print, lines 522-603 *)

\* line 497: df[df["Invoice No"] == selected_invoice]
selected_df(df, v) == SelectSeq(df, LAMBDA r : r[col("Invoice No")] = v)

\* lines 524-533
items_copy(invoice_items) ==
    [i \in 1..Len(invoice_items) |->
        [s_no |-> i,
         item |-> invoice_items[i][col("Item")],
         price |-> invoice_items[i][col("Price")],
         qty |-> invoice_items[i][col("Qty")],
         total |-> invoice_items[i][col("Total (Item)")]]]

\* lines 541-551 and the totals argument of lines 580-587: the discount percentage,
\* the GST and the grand total are those of the first row of the invoice
reprint_totals(invoice_items) ==
    LET discount_percent == invoice_items[1][col("Discount%")]
        total_amount_sel ==
            sum_seq([i \in 1..Len(invoice_items) |-> items_copy(invoice_items)[i].total])
        discount_amt_sel == (total_amount_sel * discount_percent) \div 100
        subtotal_sel == total_amount_sel - discount_amt_sel
        gst_amount_sel == invoice_items[1][col("GST Amt")]
        stored_total == invoice_items[1][col("Final Total (Invoice)")]
        grand_total_sel ==
            IF stored_total # 0 THEN stored_total ELSE subtotal_sel + gst_amount_sel
    IN  [total_amount |-> total_amount_sel,
         discount_amt |-> discount_amt_sel,
         grand_total |-> grand_total_sel,
         gst_percent |-> invoice_items[1][col("GST%")],
         gst_amount |-> gst_amount_sel,
         grand_total_incl_gst |-> grand_total_sel]

\* lines 522-603: the totals block of the re-generated document; form is what the
\* widgets of the invoice form hold in this run, whose subtotal of line 330
\* _draw_page prints
reprint(df, v, form) ==
    draw_page_totals(build_items(form.items), form.gst_percent,
                     reprint_totals(selected_df(df, v)))

-----------------------------------------------------------------------------
(* The script runs of the sessions *)

NoRun == [state |-> "none"]

Init ==
    /\ header = <<>>
    /\ rows = <<>>
    /\ cache = NoCache
    /\ pc = [s \in Users |-> "idle"]
    /\ billing_counter = [s \in Users |-> <<>>]
    /\ stall_no = [s \in Users |-> <<>>]
    /\ invoice_no = [s \in Users |-> <<>>]
    /\ msgs = [s \in Users |-> {}]
    /\ overlapped = [s \in Users |-> FALSE]
    /\ run = NoRun

\* can_generate without the stall number among the required fields
can_generate_counter_only(counter, stall) == counter # <<>>

\* lines 412 and 418-422: the button is enabled and the defensive guard passes
can_generate(counter, stall) ==
    /\ missing(counter, stall) = {}
    /\ ~(counter = <<>> \/ stall = <<>>)

\* the session variables of a run that is over
Over(s, state) ==
    /\ pc' = [pc EXCEPT ![s] = state]
    /\ billing_counter' = [billing_counter EXCEPT ![s] = <<>>]
    /\ stall_no' = [stall_no EXCEPT ![s] = <<>>]
    /\ invoice_no' = [invoice_no EXCEPT ![s] = <<>>]
    /\ msgs' = [msgs EXCEPT ![s] = {}]

\* A run of the script up to its button, lines 267-416: the widgets are read, the
\* snapshot comes from the cache or from the sheet, the number is derived.  The run
\* ends at line 296 when int(NaN) raises, and the page shows the exception.
Numbering(s) ==
    /\ pc[s] = "idle"
    /\ \E in \in Inputs, ok \in BOOLEAN :
         LET entry == fetch_sheet_df(cache, rows, ok)
             num == numbering(entry.df, in[1])
         IN  /\ cache.valid => ok
             /\ cache' = entry
             /\ billing_counter' = [billing_counter EXCEPT ![s] = in[1]]
             /\ stall_no' = [stall_no EXCEPT ![s] = in[2]]
             /\ pc' = [pc EXCEPT ![s] = IF num.raised THEN "crashed" ELSE "form"]
             /\ invoice_no' =
                    [invoice_no EXCEPT
                        ![s] = IF num.raised THEN <<>>
                               ELSE format_invoice_no(in[1], num.inv_numeric)]
             /\ msgs' =
                    [msgs EXCEPT
                        ![s] = (IF entry.failed THEN {"warn_fetch"} ELSE {})
                               \cup (IF ~num.raised /\ missing(in[1], in[2]) # {}
                                     THEN {"error_missing"} ELSE {})]
    /\ overlapped' = [overlapped EXCEPT ![s] = FALSE]
    /\ UNCHANGED <<header, rows, run>>

\* lines 488-492: a run of an admin or master clears the cache and reads again
past_invoices(user, c, data, ok) ==
    IF is_admin_or_master(user) THEN fetch_sheet_df(NoCache, data, ok) ELSE c

\* The rest of a run whose button was clicked, lines 418-492.
GenerateInvoice(s) ==
    /\ pc[s] = "form"
    /\ can_generate(billing_counter[s], stall_no[s])
    /\ \E form \in Forms, failAt \in FailPoints, ok1 \in BOOLEAN, ok2 \in BOOLEAN :
         LET res == generate_invoice(header, rows, s, stall_no[s], invoice_no[s],
                                     form, failAt)
         IN  /\ Len(rows) + Len(form.items) <= MaxRows
             /\ failAt = "header" => header # target_header
             /\ ~is_admin_or_master(s) => ok2
             /\ header' = res.header
             /\ rows' = res.rows
             /\ cache' = past_invoices(s, refresh_after_save(cache, res.rows, ok1),
                                       res.rows, ok2)
    /\ Over(s, "idle")
    /\ overlapped' = [t \in Users |-> t # s /\ (overlapped[t] \/ pc[t] = "form")]
    /\ UNCHANGED run

\* The rest of a run whose button was not clicked, lines 418 and 488-492.
EndRun(s) ==
    /\ pc[s] = "form"
    /\ \E ok \in BOOLEAN :
         /\ ~is_admin_or_master(s) => ok
         /\ cache' = past_invoices(s, cache, rows, ok)
    /\ Over(s, "idle")
    /\ overlapped' = [overlapped EXCEPT ![s] = FALSE]
    /\ UNCHANGED <<header, rows, run>>

\* The rest of a run in which Cancel or Restore was clicked, lines 418 and 488-520:
\* the refresh of lines 491-492, the selected invoice and its button, the re-read
\* and the cell updates, then the refresh of lines 510 and 519.  An exception of
\* the re-read or of an update ends the run with the snapshot of line 492 cached.
SetStatus(s) ==
    /\ pc[s] = "form"
    /\ is_admin_or_master(s)
    /\ \E ok \in BOOLEAN, k \in 0..MaxRows, ok2 \in BOOLEAN :
         LET entry == past_invoices(s, cache, rows, TRUE)
         IN  \E v \in invoice_ids(entry.df) :
               LET res == set_status(header, rows, v, status_button(entry.df, v), ok, k)
               IN  /\ k <= Cardinality(matching_rows(rows, v))
                   /\ ~ok => k = 0
                   /\ res.raised => ok2
                   /\ rows' = res.rows
                   /\ cache' = IF res.raised THEN entry
                               ELSE fetch_sheet_df(NoCache, res.rows, ok2)
                   /\ Over(s, IF res.raised THEN "crashed" ELSE "idle")
    /\ overlapped' = [overlapped EXCEPT ![s] = FALSE]
    /\ UNCHANGED <<header, run>>

\* The session leaves the page of a run that raised: its next interaction starts a
\* new run.
Rerun(s) ==
    /\ pc[s] = "crashed"
    /\ Over(s, "idle")
    /\ UNCHANGED <<header, rows, cache, overlapped, run>>

\* ttl=300 of line 175: the cached snapshot expires
Expire ==
    /\ cache.valid
    /\ cache' = NoCache
    /\ UNCHANGED <<header, rows, run>>
    /\ UNCHANGED sessionVars

Next ==
    \/ \E s \in Users : Numbering(s)
    \/ \E s \in Users : GenerateInvoice(s)
    \/ \E s \in Users : EndRun(s)
    \/ \E s \in Users : Rerun(s)
    \/ Expire

Spec == Init /\ [][Next]_vars

\* the sessions that see the Past Invoices section, line 488
Admins == {s \in Users : is_admin_or_master(s)}

\* The runs of the sessions of an admin: invoices are generated, cancelled and
\* restored, one run after the other.
NextLedger ==
    \/ \E s \in Admins : Numbering(s)
    \/ \E s \in Admins : GenerateInvoice(s)
    \/ \E s \in Admins : EndRun(s)
    \/ \E s \in Admins : SetStatus(s)
    \/ \E s \in Admins : Rerun(s)
    \/ Expire

SpecLedger == Init /\ [][NextLedger]_vars

-----------------------------------------------------------------------------
(* Single calls: the calculation, the handler and append_to_google_sheet, each on
   inputs drawn from bounded sets *)

\* line 279
GstRates == {0, 3, 5, 12, 18, 28}

\* the values of the item widgets: price >= 0 (line 306), quantity >= 1 (line 307),
\* discount in 0..100 (lines 308-315)
Widgets ==
    [item : {"Lamp"}, price : {0, 50, 100}, qty : {1, 2},
     discount_percent : {0, 10, 100}]

SeqsUpTo(S, n) == UNION {[1..k -> S] : k \in 1..n}

\* a row of n cells as a caller other than the handler could pass it
arbitrary_row(n) == [i \in 1..n |-> IF i \in TextCols THEN <<"x">> ELSE "x"]

\* a row the sheet holds from an earlier invoice
old_row ==
    << <<"7">>, <<"B", "_", "I", "N", "V", "0", "1">>, date_str, ph_no, payment_method,
       artisan_code, "Lamp", 1, 50 * Unit, 50 * Unit, 0, 50 * Unit, 50 * Unit, 0, 0,
       "Active", Corporation, "Delhi" >>

\* the worksheets a call may find
Sheets ==
    {[header |-> <<>>, rows |-> <<>>],
     [header |-> legacy_header, rows |-> <<>>],
     [header |-> target_header, rows |-> <<>>],
     [header |-> target_header, rows |-> <<old_row>>]}

CalcInputs ==
    [state : {"input"}, op : {"calc"},
     items : SeqsUpTo(Widgets, MaxItems), gst_percent : GstRates]

HandlerInputs ==
    [state : {"input"}, op : {"handler"}, user : Users,
     items : SeqsUpTo({Shawl, Lamp}, MaxItems), gst_percent : {0, 18},
     failAt : FailPoints, ok : BOOLEAN]

\* "guest" is a username the credential store does not hold
AppendInputs ==
    [state : {"input"}, op : {"append"}, user : Users \cup {"guest"},
     cells : 0..MaxCells, failAt : FailPoints]

\* the invoice numbers of the rows the sheet holds before a single call
B_INV01 == <<"B", "_", "I", "N", "V", "0", "1">>
A_INV01 == format_invoice_no(A, 1)

\* a row of the sheet as the handler saved it
ledger_row(inv, w, status) ==
    [numericise_row(full_row(handler_row(<<"0", "7">>, inv, item_entry(1, w),
                                         handler_totals(build_items(<<w>>), 0)),
                             "Delhi"))
        EXCEPT ![col("Status")] = status]

\* the values the Status cell takes, lines 473, 509 and 518
Statuses == {"Active", "Cancelled"}

\* worksheets with an invoice of two rows and an invoice of one row
StatusSheets ==
    {[header |-> target_header,
      rows |-> <<ledger_row(B_INV01, Shawl, s1), ledger_row(B_INV01, Lamp, s2),
                 ledger_row(A_INV01, Lamp, s3)>>] :
        s1 \in Statuses, s2 \in Statuses, s3 \in Statuses}

\* line 151: the roles a profile may hold
Roles == {"user", "admin", "master"}

\* lines 152-153
is_master(role) == role = "master"
is_admin(role) == role = "admin"

\* the user-management buttons, lines 741, 773, 808 and 831
UserManagement == {"save_location", "update_password", "delete_user", "create_user"}

\* the controls of the Past Invoices section, the dashboard and the export, lines
\* 504, 513, 522, 624 and 909
AdminControls == {"cancel", "restore", "reprint", "analytics", "export"}

\* the controls every logged-in session gets, lines 147 and 418
CommonControls == {"logout", "generate"}

\* page_controls with the user management open to admins as well
page_controls_admin_manages(role) ==
    CommonControls
        \cup (IF is_admin(role) \/ is_master(role)
              THEN AdminControls \cup UserManagement ELSE {})

\* the controls a run of the script renders for a role: the gates of lines 488,
\* 622, 731 and 859
page_controls(role) ==
    CommonControls
        \cup (IF is_admin(role) \/ is_master(role) THEN AdminControls ELSE {})
        \cup (IF is_master(role) THEN UserManagement ELSE {})

\* a session of some role reaching for some control
PageInputs ==
    [state : {"input"}, op : {"page"}, role : Roles,
     control : CommonControls \cup AdminControls \cup UserManagement]

\* a click on Cancel or Restore: the selected invoice, whether the re-read works,
\* how many cell updates work, whether the refresh works
StatusInputs ==
    [state : {"input"}, op : {"status"}, user : Admins, v : {B_INV01, A_INV01},
     ok : BOOLEAN, k : 0..MaxItems, ok2 : BOOLEAN]

\* invoice numbers of counter A, of a counter that starts with A and of a counter
\* whose numbers hold "A_INV" further inside
InvoiceNumbers ==
    {format_invoice_no(A, 1), format_invoice_no(A, 2), format_invoice_no(A2, 1),
     format_invoice_no(A_A, 7)}

\* a run of the numbering: the counter typed and the invoice numbers of the ledger
NumberInputs ==
    [state : {"input"}, op : {"number"}, counter : {A, A2},
     invs : SeqsUpTo(InvoiceNumbers, MaxRows)]

\* a re-print: the form the invoice was created from and the form of this run
ReprintInputs ==
    [state : {"input"}, op : {"reprint"}, user : Admins, stored : Forms,
     current : Forms]

\* the worksheets a single call may find
run_sheets(r) ==
    IF r.op = "status" THEN StatusSheets
    ELSE IF r.op = "reprint"
         THEN {[header |-> target_header,
                rows |-> generate_invoice(target_header, <<>>, r.user, <<"0", "7">>,
                                          A_INV01, r.stored, "none").rows]}
    ELSE IF r.op = "number"
         THEN {[header |-> target_header,
                rows |-> [i \in 1..Len(r.invs) |->
                             ledger_row(r.invs[i], Lamp, "Active")]]}
         ELSE Sheets

InitRun ==
    /\ run \in CalcInputs \cup HandlerInputs \cup AppendInputs \cup StatusInputs
                  \cup PageInputs \cup NumberInputs \cup ReprintInputs
    /\ \E sh \in run_sheets(run) :
          header = sh.header /\ rows = sh.rows
    /\ run.op = "status"
          => /\ run.k <= Cardinality(matching_rows(rows, run.v))
             /\ ~run.ok => run.k = 0
             /\ (~run.ok \/ run.k < Cardinality(matching_rows(rows, run.v))) => run.ok2
    /\ run.op = "calc" => header = <<>>
    /\ (run.op \in {"handler", "append"} /\ run.failAt = "header")
          => header # target_header
    /\ cache = NoCache
    /\ pc = [s \in Users |-> "idle"]
    /\ billing_counter = [s \in Users |-> <<>>]
    /\ stall_no = [s \in Users |-> <<>>]
    /\ invoice_no = [s \in Users |-> <<>>]
    /\ msgs = [s \in Users |-> {}]
    /\ overlapped = [s \in Users |-> FALSE]

\* the stall and the invoice number of the single calls
run_stall == <<"0", "7">>
run_inv == format_invoice_no(A, 1)

\* Lines 316-332, 394-398 and 424-479 on one form: the entries, the totals, the
\* printed totals block and the rows saved to an empty sheet.
Calculate ==
    /\ run.state = "input" /\ run.op = "calc"
    /\ LET form == [items |-> run.items, gst_percent |-> run.gst_percent]
           res == generate_invoice(header, rows, "u1", run_stall, run_inv, form, "none")
       IN  /\ header' = res.header
           /\ rows' = res.rows
           /\ run' = [state |-> "done", op |-> "calc",
                      items |-> run.items, gst_percent |-> run.gst_percent,
                      entries |-> build_items(run.items),
                      shown_totals |-> form_totals(build_items(run.items),
                                                   run.gst_percent),
                      pdf |-> res.pdf]
    /\ UNCHANGED cache
    /\ UNCHANGED sessionVars

\* Lines 424-482 on one form and one worksheet, the append failing where failAt says.
RunHandler ==
    /\ run.state = "input" /\ run.op = "handler"
    /\ LET form == [items |-> run.items, gst_percent |-> run.gst_percent]
           res == generate_invoice(header, rows, run.user, run_stall, run_inv, form,
                                   run.failAt)
       IN  /\ header' = res.header
           /\ rows' = res.rows
           /\ cache' = refresh_after_save(cache, res.rows, run.ok)
           /\ run' = [state |-> "done", op |-> "handler", user |-> run.user,
                      items |-> run.items, gst_percent |-> run.gst_percent,
                      before |-> [header |-> header, rows |-> rows],
                      shown |-> res.shown
                                \cup (IF run.ok THEN {} ELSE {"warn_fetch"})]
    /\ UNCHANGED sessionVars

\* Lines 201-260 on one row of any length.
RunAppend ==
    /\ run.state = "input" /\ run.op = "append"
    /\ LET res == append_to_google_sheet(header, rows, <<arbitrary_row(run.cells)>>,
                                         run.user, run.failAt)
       IN  /\ header' = res.header
           /\ rows' = res.rows
           /\ run' = [state |-> "done", op |-> "append", user |-> run.user,
                      passed |-> arbitrary_row(run.cells),
                      before |-> [header |-> header, rows |-> rows],
                      warned |-> res.warned]
    /\ UNCHANGED cache
    /\ UNCHANGED sessionVars

\* Lines 488-520 with Cancel or Restore clicked for the selected invoice.
RunStatus ==
    /\ run.state = "input" /\ run.op = "status"
    /\ LET entry == past_invoices(run.user, cache, rows, TRUE)
           status == status_button(entry.df, run.v)
           res == set_status(header, rows, run.v, status, run.ok, run.k)
       IN  /\ rows' = res.rows
           /\ cache' = IF res.raised THEN entry
                       ELSE fetch_sheet_df(NoCache, res.rows, run.ok2)
           /\ run' = [state |-> "done", op |-> "status", user |-> run.user,
                      v |-> run.v, status |-> status,
                      before |-> [header |-> header, rows |-> rows],
                      raised |-> res.raised,
                      updated |-> IF run.ok THEN run.k ELSE 0,
                      shown |-> IF res.raised THEN {"exception"}
                                ELSE {"success_status"}
                                     \cup (IF run.ok2 THEN {} ELSE {"warn_fetch"})]
    /\ UNCHANGED header
    /\ UNCHANGED sessionVars

\* One run of the script for a role: a control acts only when the run renders it.
RunPage ==
    /\ run.state = "input" /\ run.op = "page"
    /\ run' = [state |-> "done", op |-> "page", role |-> run.role,
               control |-> run.control,
               triggered |-> IF run.control \in page_controls(run.role)
                             THEN {run.control} ELSE {}]
    /\ UNCHANGED <<header, rows, cache>>
    /\ UNCHANGED sessionVars

\* Lines 284-297 on one ledger and one counter.
RunNumber ==
    /\ run.state = "input" /\ run.op = "number"
    /\ LET entry == fetch_sheet_df(cache, rows, TRUE)
           num == numbering(entry.df, run.counter)
       IN  /\ cache' = entry
           /\ run' = [state |-> "done", op |-> "number", counter |-> run.counter,
                      raised |-> num.raised,
                      invoice_no |-> IF num.raised THEN <<>>
                                     ELSE format_invoice_no(run.counter,
                                                            num.inv_numeric)]
    /\ UNCHANGED <<header, rows>>
    /\ UNCHANGED sessionVars

\* Lines 488-497 and 522-603: Generate PDF for Selected clicked for the invoice the
\* sheet holds, the invoice form holding the widgets of this run.
RunReprint ==
    /\ run.state = "input" /\ run.op = "reprint"
    /\ LET entry == past_invoices(run.user, cache, rows, TRUE)
       IN  /\ cache' = entry
           /\ run' = [state |-> "done", op |-> "reprint", user |-> run.user,
                      stored |-> run.stored, current |-> run.current,
                      pdf |-> reprint(entry.df, A_INV01, run.current)]
    /\ UNCHANGED <<header, rows>>
    /\ UNCHANGED sessionVars

NextRun ==
    \/ Calculate
    \/ RunHandler
    \/ RunAppend
    \/ RunStatus
    \/ RunPage
    \/ RunNumber
    \/ RunReprint

SpecRun == InitRun /\ [][NextRun]_vars

-----------------------------------------------------------------------------
(* Invoice numbering as the specification states it *)

\* the step is the first part of a run of s, ending at its button or in an exception
NumberingStep(s) == pc[s] = "idle" /\ pc'[s] \in {"form", "crashed"}

\* the step is the handler of s appending rows
AppendStep(s) == pc[s] = "form" /\ pc'[s] = "idle" /\ Len(rows') > Len(rows)

InvoiceCol == col("Invoice No")

\* v is counter + "_INV" + digits and nothing else
IsInvoiceOf(v, counter) ==
    /\ startswith(v, counter \o INV)
    /\ AllDigits(SubSeq(v, Len(counter) + Len(INV) + 1, Len(v)))

\* the numeric suffix of an invoice number of the counter
SuffixOf(v, counter) == astype_int(SubSeq(v, Len(counter) + Len(INV) + 1, Len(v)))

\* the suffixes of the snapshot's invoice numbers of the counter
SuffixesOf(df, counter) ==
    {SuffixOf(df[i][InvoiceCol], counter) :
        i \in {j \in 1..Len(df) : IsInvoiceOf(df[j][InvoiceCol], counter)}}

\* one more than the largest suffix, 1 when there is none
SpecifiedNumber(df, counter) ==
    counter \o INV \o fmt_02d(IF SuffixesOf(df, counter) = {} THEN 1
                                ELSE Max(SuffixesOf(df, counter)) + 1)

\* C1: for every non-empty counter and every snapshot, the number a run assigns is
\* counter + "_INV" + (largest suffix of the counter's invoice numbers in the
\* snapshot + 1, or 1), written with at least two digits.
C1_NextNumberFromSnapshot ==
    [][\A s \in Users :
          (NumberingStep(s) /\ billing_counter'[s] # <<>>)
              => /\ pc'[s] = "form"
                 /\ invoice_no'[s] = SpecifiedNumber(cache'.df, billing_counter'[s])]_vars

\* C2: invoice numbers that do not match counter + "_INV" + digits never make
\* numbering fail, and when none matches the sequence is 1.
C2_MalformedRowsIgnored ==
    [][\A s \in Users :
          (NumberingStep(s) /\ billing_counter'[s] # <<>>)
              => /\ pc'[s] # "crashed"
                 /\ SuffixesOf(cache'.df, billing_counter'[s]) = {}
                        => invoice_no'[s] = billing_counter'[s] \o INV \o <<"0", "1">>]_vars

\* C3: a generation whose snapshot read succeeded and that no other generation
\* overlapped gets a sequence number above every sequence number the ledger holds
\* for its counter; so without overlaps and failures the numbers of a counter are
\* pairwise distinct and increase in generation order.
C3_SequentialNumbersIncrease ==
    [][\A s \in Users :
          (AppendStep(s) /\ ~overlapped[s] /\ "warn_fetch" \notin msgs[s])
              => /\ IsInvoiceOf(invoice_no[s], billing_counter[s])
                 /\ \A i \in 1..Len(rows) :
                        IsInvoiceOf(rows[i][InvoiceCol], billing_counter[s])
                            => SuffixOf(rows[i][InvoiceCol], billing_counter[s])
                                   < SuffixOf(invoice_no[s], billing_counter[s])]_vars

\* two generations of counter A, one after the other, numbered 01 and 02
C3_Witness ==
    /\ Len(rows) >= 2
    /\ rows[1][InvoiceCol] = A \o INV \o <<"0", "1">>
    /\ rows[Len(rows)][InvoiceCol] = A \o INV \o <<"0", "2">>

\* C4: a run that holds an invoice number the ledger already contains, because
\* another session appended it after this run read its snapshot, passes the
\* button's checks, and its handler, when the append succeeds, adds its rows under
\* that number: nothing prevents the duplicate.
C4_DuplicateNotPrevented ==
    \A s \in Users :
        (/\ pc[s] = "form"
         /\ overlapped[s]
         /\ billing_counter[s] # <<>> /\ stall_no[s] # <<>>
         /\ \E i \in 1..Len(rows) : rows[i][InvoiceCol] = invoice_no[s])
            => /\ can_generate(billing_counter[s], stall_no[s])
               /\ \A form \in Forms :
                     LET res == generate_invoice(header, rows, s, stall_no[s],
                                                 invoice_no[s], form, "none")
                     IN  /\ Len(res.rows) = Len(rows) + Len(form.items)
                         /\ \A k \in Len(rows) + 1..Len(res.rows) :
                               res.rows[k][InvoiceCol] = invoice_no[s]

\* the ledger holds rows of two sessions under one invoice number
C4_Witness ==
    \E i, j \in 1..Len(rows) :
        /\ i < j
        /\ rows[i][InvoiceCol] = rows[j][InvoiceCol]
        /\ rows[i][col("Location")] # rows[j][col("Location")]

\* C5: a run whose snapshot read failed appends no rows.
C5_ReadFailureAborts ==
    [][\A s \in Users :
          (pc[s] = "form" /\ pc'[s] = "idle" /\ "warn_fetch" \in msgs[s])
              => rows' = rows]_vars

\* C7: no number is assigned with an empty counter, every ledger row has a counter
\* before "_INV" and a stall number, and the button lets a run through exactly when
\* both fields are filled.
C7_RequiredFieldsPresent ==
    /\ \A i \in 1..Len(rows) :
          /\ rows[i][col("Stall No")] # <<>>
          /\ \E k \in 1..Len(rows[i][InvoiceCol]) :
                IsInvoiceOf(rows[i][InvoiceCol], SubSeq(rows[i][InvoiceCol], 1, k))
    /\ \A s \in Users :
          pc[s] = "form"
              => /\ (invoice_no[s] # <<>>) <=> (billing_counter[s] # <<>>)
                 /\ ("error_missing" \in msgs[s])
                        <=> (billing_counter[s] = <<>> \/ stall_no[s] = <<>>)
                 /\ can_generate(billing_counter[s], stall_no[s])
                        <=> (billing_counter[s] # <<>> /\ stall_no[s] # <<>>)

\* the ledger holds an invoice and a run with an empty field is stopped at the button
C7_Witness ==
    /\ rows # <<>>
    /\ \E s \in Users :
          /\ pc[s] = "form"
          /\ "error_missing" \in msgs[s]
          /\ ~can_generate(billing_counter[s], stall_no[s])

-----------------------------------------------------------------------------
(* The handler, the append and the calculation, one call at a time (SpecRun) *)

LocationCol == col("Location")

\* the location the credential store holds for the user, "" when it holds none
StoredLocation(user) ==
    IF user \in Users /\ "location" \in DOMAIN config[user]
    THEN config[user].location
    ELSE ""

HandlerDone == run.state = "done" /\ run.op = "handler"

\* C6: when the append fails, header and data rows are as before the attempt and
\* the invoice is not reported as saved.
C6_FailedAppendLeavesLedger ==
    (HandlerDone /\ "warn_append" \in run.shown)
        => /\ header = run.before.header
           /\ rows = run.before.rows
           /\ "success_saved" \notin run.shown

\* the columns that belong to one item
ItemCols ==
    {col("Item"), col("Qty"), col("Price"), col("Total (Item)"), col("Discount%"),
     col("Final Total (Item)")}

\* C8: a successful generation with n items appends exactly n rows, row k for item
\* k; the rows share the invoice number, Status Active and the user's location, and
\* differ only in the item columns.
C8_OneRowPerItem ==
    (HandlerDone /\ "warn_append" \notin run.shown)
        => LET n == Len(run.items)
               base == Len(run.before.rows)
           IN  /\ Len(rows) = base + n
               /\ SubSeq(rows, 1, base) = run.before.rows
               /\ \A k \in 1..n :
                     /\ Len(rows[base + k]) = Len(target_header)
                     /\ rows[base + k][col("Item")] = run.items[k].item
                     /\ rows[base + k][col("Qty")] = run.items[k].qty
                     /\ rows[base + k][col("Price")] = run.items[k].price * Unit
                     /\ rows[base + k][col("Discount%")] = run.items[k].discount_percent
                     /\ rows[base + k][InvoiceCol] = run_inv
                     /\ rows[base + k][col("GST%")] = run.gst_percent
                     /\ rows[base + k][col("Status")] = "Active"
                     /\ rows[base + k][LocationCol] = StoredLocation(run.user)
               /\ \A k1, k2 \in 1..n :
                     \A c \in (1..Len(target_header)) \ ItemCols :
                         rows[base + k1][c] = rows[base + k2][c]

\* an invoice of two different items was saved
C8_Witness ==
    /\ HandlerDone
    /\ "warn_append" \notin run.shown
    /\ run.items = <<Shawl, Lamp>>
    /\ Len(rows) = Len(run.before.rows) + 2

AppendDone == run.state = "done" /\ run.op = "append" /\ ~run.warned

CalcDone == run.state = "done" /\ run.op = "calc"

RECURSIVE SumFinal(_, _)
SumFinal(entries, k) ==
    IF k = 0 THEN 0 ELSE SumFinal(entries, k - 1) + entries[k].final_total

\* the scenario of the specification: 100 x 2 at 10 % and 50 x 1 at 0 %, GST 18 %
ScenarioItems ==
    <<[item |-> "Lamp", price |-> 100, qty |-> 2, discount_percent |-> 10],
      [item |-> "Lamp", price |-> 50, qty |-> 1, discount_percent |-> 0]>>

\* C10: item total = price * quantity; item final total = item total *
\* (1 - discount/100); subtotal = sum of the final totals; GST = subtotal * rate/100;
\* grand total = subtotal + GST; in the rows saved, in the form and on the page.
C10_TotalsFormulae ==
    CalcDone
        => LET e == run.entries
               n == Len(run.items)
               sub == SumFinal(run.entries, Len(run.items))
               gst == run.pdf.gst_amount
           IN  /\ Len(e) = n /\ Len(rows) = n
               /\ \A k \in 1..n :
                     /\ e[k].total = run.items[k].price * run.items[k].qty * Unit
                     /\ e[k].final_total * 100
                            = e[k].total * (100 - run.items[k].discount_percent)
                     /\ run.items[k].discount_percent = 0 => e[k].final_total = e[k].total
                     /\ run.items[k].discount_percent = 100 => e[k].final_total = 0
                     /\ e[k].final_total <= e[k].total
                     /\ rows[k][col("Total (Item)")] = e[k].total
                     /\ rows[k][col("Final Total (Item)")] = e[k].final_total
                     /\ rows[k][col("Final Total (Invoice)")] = sub + gst
                     /\ rows[k][col("GST Amt")] = gst
               /\ gst * 100 = sub * run.gst_percent
               /\ run.gst_percent = 0 => gst = 0
               /\ run.pdf.subtotal = sub
               /\ run.pdf.grand_total = sub + gst
               /\ run.shown_totals.subtotal = sub
               /\ run.shown_totals.gst_amount = gst
               /\ run.shown_totals.grand_total_incl_gst = sub + gst
               /\ (run.items = ScenarioItems /\ run.gst_percent = 18)
                     => /\ sub * 100 = 23000 * Unit
                        /\ gst * 100 = 4140 * Unit
                        /\ run.pdf.grand_total * 100 = 27140 * Unit

\* the scenario was calculated, with a grand total of 271.40
C10_Witness ==
    /\ CalcDone
    /\ run.items = ScenarioItems
    /\ run.gst_percent = 18
    /\ run.pdf.grand_total * 100 = 27140 * Unit

-----------------------------------------------------------------------------
(* Cancel and restore, one click at a time (SpecRun) *)

StatusDone == run.state = "done" /\ run.op = "status"

StatusColumn == col("Status")

\* C11: a completed cancel (restore) of invoice v leaves every row of v with Status
\* Cancelled (Active) whatever it was, changes no other cell of those rows, no row
\* of another invoice and not the header; the same operation once more changes
\* nothing and raises nothing.
C11_StatusFrameAndIdempotence ==
    (StatusDone /\ ~run.raised)
        => /\ header = run.before.header
           /\ Len(rows) = Len(run.before.rows)
           /\ run.status \in Statuses
           /\ (run.status = "Cancelled")
                 <=> (\E i \in 1..Len(rows) :
                         /\ run.before.rows[i][InvoiceCol] = run.v
                         /\ run.before.rows[i][StatusColumn] = "Active"
                         /\ \A j \in 1..(i - 1) :
                               run.before.rows[j][InvoiceCol] # run.v)
           /\ \A i \in 1..Len(rows) :
                 IF run.before.rows[i][InvoiceCol] = run.v
                 THEN /\ rows[i][StatusColumn] = run.status
                      /\ \A c \in (1..Len(rows[i])) \ {StatusColumn} :
                            rows[i][c] = run.before.rows[i][c]
                 ELSE rows[i] = run.before.rows[i]
           /\ \A k \in 0..Len(rows) :
                 set_status(header, rows, run.v, run.status, TRUE, k).rows = rows
           /\ ~set_status(header, rows, run.v, run.status, TRUE, Len(rows)).raised

\* an invoice whose two rows were Active and Cancelled was cancelled: both rows are
\* Cancelled and the row of the other invoice is as it was
C11_Witness ==
    /\ StatusDone /\ ~run.raised
    /\ run.v = B_INV01
    /\ run.status = "Cancelled"
    /\ run.before.rows[1][StatusColumn] = "Active"
    /\ run.before.rows[2][StatusColumn] = "Cancelled"
    /\ rows[1][StatusColumn] = "Cancelled"
    /\ rows[2][StatusColumn] = "Cancelled"
    /\ rows[3] = run.before.rows[3]

-----------------------------------------------------------------------------
(* The ledger over generations, cancellations and restorations (SpecLedger) *)

\* C12: no step deletes or reorders data rows; a step that adds rows leaves the
\* rows there were untouched and adds rows with Status Active; a step that changes
\* a row there was changes its Status cell only and is a cancel or restore; the
\* Status of every row is Active or Cancelled.
C12_RowsKeptStatusOnly ==
    [][/\ Len(rows') >= Len(rows)
       /\ \A i \in 1..Len(rows) :
             \A c \in (1..Len(rows[i])) \ {col("Status")} : rows'[i][c] = rows[i][c]
       /\ \A i \in 1..Len(rows) : Len(rows'[i]) = Len(rows[i])
       /\ Len(rows') > Len(rows) => SubSeq(rows', 1, Len(rows)) = rows
       /\ \A i \in (Len(rows) + 1)..Len(rows') : rows'[i][col("Status")] = "Active"
       /\ \A i \in 1..Len(rows') : rows'[i][col("Status")] \in Statuses
       /\ (\E i \in 1..Len(rows) : rows'[i] # rows[i])
             => \E s \in Admins :
                   /\ pc[s] = "form" /\ pc'[s] \in {"idle", "crashed"}
                   /\ Len(rows') = Len(rows)]_vars

\* an invoice was generated and cancelled, and another was generated after it
C12_Witness ==
    /\ Len(rows) = 2
    /\ rows[1][col("Status")] = "Cancelled"
    /\ rows[2][col("Status")] = "Active"
    /\ rows[1][InvoiceCol] # rows[2][InvoiceCol]

\* C13: when a run that wrote to the ledger (an append, a cancel, a restore) has
\* completed, the snapshot the cache serves to the reads that follow is the ledger
\* with that write.
C13_CacheHoldsCompletedWrite ==
    [][\A s \in Users :
          (pc[s] = "form" /\ pc'[s] = "idle" /\ rows' # rows)
              => (cache'.valid => cache'.df = read_all(rows'))]_vars

-----------------------------------------------------------------------------
(* Failures of the ledger operations (SpecRun) *)

\* C14: no failure of a ledger operation leaves its handler as an exception: the
\* page of a generation and the page of a cancel or restore never show one.
C14_NoUncaughtFailure ==
    /\ HandlerDone => "exception" \notin run.shown
    /\ StatusDone => (~run.raised /\ "exception" \notin run.shown)

-----------------------------------------------------------------------------
(* Roles (SpecRun) *)

PageDone == run.state = "done" /\ run.op = "page"

\* C15: a session of role user triggers nothing but the generation of an invoice
\* (and its logout): no cancel, restore, re-print, analytics, export or user
\* management; a session of role admin triggers no user management; every control
\* is open to master.
C15_RoleGating ==
    PageDone
        => /\ run.role = "user" => run.triggered \subseteq CommonControls
           /\ run.role = "admin" => run.triggered \cap UserManagement = {}
           /\ run.role = "master" => run.triggered = {run.control}
           /\ run.control \in CommonControls => run.triggered = {run.control}

\* a user reached for Cancel and an admin for Delete User, and nothing happened
C15_Witness ==
    /\ PageDone
    /\ \/ run.role = "user" /\ run.control = "cancel"
       \/ run.role = "admin" /\ run.control = "delete_user"
    /\ run.triggered = {}

-----------------------------------------------------------------------------
(* Round trip of a saved invoice (SpecRun) *)

\* the row the handler passes for item k of the form, padded with the location
WrittenRow(k) ==
    full_row(handler_row(run_stall, run_inv, build_items(run.items)[k],
                         handler_totals(build_items(run.items), run.gst_percent)),
             StoredLocation(run.user))

\* C16: the rows of a saved invoice, read back through the snapshot read, hold in
\* every column the value that was written, a stall number of digits with a leading
\* zero included.
C16_RoundTripVerbatim ==
    (HandlerDone /\ run.shown \cap {"warn_append", "warn_fetch"} = {})
        => /\ Len(cache.df) = Len(run.before.rows) + Len(run.items)
           /\ \A k \in 1..Len(run.items) :
                 cache.df[Len(run.before.rows) + k] = WrittenRow(k)

-----------------------------------------------------------------------------
(* Numbering and the rows of other counters (SpecRun) *)

NumberDone == run.state = "done" /\ run.op = "number"

\* the rows of the snapshot whose Invoice No starts with counter + "_INV"
OwnRows(df, counter) ==
    SelectSeq(df, LAMBDA r : startswith(r[InvoiceCol], counter \o INV))

\* C17: the number computed for a counter is the number computed from the rows
\* whose Invoice No starts with counter + "_INV" alone; rows of other counters,
\* A2_INV01 or A_A_INV07 for counter A, change nothing.
C17_OnlyOwnRowsCount ==
    NumberDone
        => /\ ~run.raised
           /\ run.invoice_no
                  = format_invoice_no(run.counter,
                                      numbering(OwnRows(cache.df, run.counter),
                                                run.counter).inv_numeric)

-----------------------------------------------------------------------------
(* Cancel and restore stopped part-way (SpecRun) *)

\* the rows of invoice v among the first i rows
RankOf(data, v, i) == Cardinality({j \in 1..i : data[j][InvoiceCol] = v})

\* C18: when the re-read or a cell update of a cancel or restore raises, the rows
\* updated before keep the new status, the other rows are as they were, the run
\* shows the exception and nothing else: the rows of one invoice may be left with
\* different statuses, and nothing rolls the updates back.
C18_PartialStatusKept ==
    (StatusDone /\ run.raised)
        => /\ header = run.before.header
           /\ Len(rows) = Len(run.before.rows)
           /\ run.updated < RankOf(rows, run.v, Len(rows))
           /\ \A i \in 1..Len(rows) :
                 IF /\ rows[i][InvoiceCol] = run.v
                    /\ RankOf(rows, run.v, i) <= run.updated
                 THEN rows[i] = [run.before.rows[i] EXCEPT ![StatusColumn] = run.status]
                 ELSE rows[i] = run.before.rows[i]
           /\ run.shown = {"exception"}

\* the second cell update of a cancel raised: of two Active rows of one invoice the
\* first is Cancelled and the second Active
C18_Witness ==
    /\ StatusDone /\ run.raised
    /\ run.v = B_INV01
    /\ run.before.rows[1][StatusColumn] = "Active"
    /\ run.before.rows[2][StatusColumn] = "Active"
    /\ rows[1][InvoiceCol] = rows[2][InvoiceCol]
    /\ rows[1][StatusColumn] = "Cancelled"
    /\ rows[2][StatusColumn] = "Active"

-----------------------------------------------------------------------------
(* Re-print of a stored invoice (SpecRun) *)

ReprintDone == run.state = "done" /\ run.op = "reprint"

\* the totals block printed when the invoice was created
CreatedTotals(form) ==
    draw_page_totals(build_items(form.items), form.gst_percent,
                     handler_totals(build_items(form.items), form.gst_percent))

\* C19: the subtotal, the total discount, the GST amount and the grand total on a
\* re-generated document are those printed when the invoice was created, whatever
\* the invoice form holds in the run of the re-print and whatever the discounts of
\* the items.
C19_ReprintShowsStoredTotals ==
    ReprintDone
        => /\ run.pdf.subtotal = CreatedTotals(run.stored).subtotal
           /\ run.pdf.discount_amt = CreatedTotals(run.stored).discount_amt
           /\ run.pdf.gst_amount = CreatedTotals(run.stored).gst_amount
           /\ run.pdf.grand_total = CreatedTotals(run.stored).grand_total

====
